---- MODULE Spec2Model ----
(***************************************************************************)
(* Model of Tools/tiftool.py: the GeoTIFF -> 16-bit PNG conversion         *)
(* pipeline (main) and its numeric helpers calculate_resize_factors,       *)
(* resize_image and normalize_to_uint16.                                   *)
(*                                                                         *)
(* Numbers.  The program computes in IEEE-754 doubles (Python float and    *)
(* numpy float64).  The model computes in the same doubles: a finite       *)
(* double is its sign, an odd integer mantissa below 2^53 and a binary     *)
(* exponent, every operation forms the exact result and rounds it to the   *)
(* nearest double, ties to even, with gradual underflow and overflow to    *)
(* infinity.  The mantissas and the exact intermediate results exceed     *)
(* 32-bit integers, so they are kept as sequences of limbs.                *)
(***************************************************************************)
EXTENDS Integers, Sequences, FiniteSets, TLC

----------------------------------------------------------------------------
(* Bounds of the explored input space *)

MaxWidth == 2
MaxHeight == 2
MaxPixels == 3
MaxSample == 2
MaxPixelSize == 3
MaxStepNum == 3
MaxStepExp == 16
MaxTinyStepExp == 60
MaxSizeNum == 3
MaxKernel == 3

(* Program constant: the 16-bit ceiling used by normalize_to_uint16 *)
UINT16_MAX == 65535

(* The format of a double: significant bits, the exponent of the smallest  *)
(* subnormal, and the exponent no finite double reaches                    *)
DOUBLE_BITS == 53

DOUBLE_MIN_EXP == -1074

DOUBLE_MAX_EXP == 1024

(* The bits of the integer conversion behind the cast to uint16: a double  *)
(* at or beyond 2^31 in magnitude has no 32-bit truncation                 *)
INT32_BITS == 31

----------------------------------------------------------------------------
(* Natural numbers of any size: little-endian sequences of limbs in        *)
(* 0..Base-1 without a leading zero limb; <<>> is zero                     *)

LimbBits == 15

Base == 2 ^ LimbBits

Min(a, b) == IF a < b THEN a ELSE b

Max(a, b) == IF a > b THEN a ELSE b

RECURSIVE BitLen(_)
BitLen(n) == IF n = 0 THEN 0 ELSE 1 + BitLen(n \div 2)

RECURSIVE TrailingZeros(_)
TrailingZeros(n) == IF n % 2 = 1 THEN 0 ELSE 1 + TrailingZeros(n \div 2)

RECURSIVE BigFromInt(_)
BigFromInt(n) == IF n = 0 THEN <<>> ELSE <<n % Base>> \o BigFromInt(n \div Base)

RECURSIVE BigToInt(_)
BigToInt(a) == IF a = <<>> THEN 0 ELSE a[1] + Base * BigToInt(Tail(a))

RECURSIVE BigTrim(_)
BigTrim(a) ==
    IF a = <<>> \/ a[Len(a)] # 0 THEN a ELSE BigTrim(SubSeq(a, 1, Len(a) - 1))

Limb(a, i) == IF i <= Len(a) THEN a[i] ELSE 0

BigBitLen(a) ==
    IF a = <<>> THEN 0 ELSE LimbBits * (Len(a) - 1) + BitLen(a[Len(a)])

BigOdd(a) == a # <<>> /\ a[1] % 2 = 1

(* -1, 0 or 1 as a is below, equal to or above b *)
RECURSIVE BigCmpFrom(_, _, _)
BigCmpFrom(a, b, i) ==
    IF i = 0 THEN 0
    ELSE IF a[i] < b[i] THEN -1
    ELSE IF a[i] > b[i] THEN 1
    ELSE BigCmpFrom(a, b, i - 1)

BigCmp(a, b) ==
    IF Len(a) < Len(b) THEN -1
    ELSE IF Len(a) > Len(b) THEN 1
    ELSE BigCmpFrom(a, b, Len(a))

RECURSIVE BigAddFrom(_, _, _, _)
BigAddFrom(a, b, i, carry) ==
    IF i > Len(a) /\ i > Len(b) THEN (IF carry = 0 THEN <<>> ELSE <<carry>>)
    ELSE LET t == Limb(a, i) + Limb(b, i) + carry
         IN  <<t % Base>> \o BigAddFrom(a, b, i + 1, t \div Base)

BigAdd(a, b) == BigAddFrom(a, b, 1, 0)

(* a - b for a >= b *)
RECURSIVE BigSubFrom(_, _, _, _)
BigSubFrom(a, b, i, borrow) ==
    IF i > Len(a) THEN <<>>
    ELSE LET t == a[i] - Limb(b, i) - borrow
         IN  <<t % Base>> \o BigSubFrom(a, b, i + 1, IF t < 0 THEN 1 ELSE 0)

BigSub(a, b) == BigTrim(BigSubFrom(a, b, 1, 0))

(* a * k for a limb-sized k *)
RECURSIVE BigMulSmallFrom(_, _, _, _)
BigMulSmallFrom(a, k, i, carry) ==
    IF i > Len(a) THEN BigFromInt(carry)
    ELSE LET t == a[i] * k + carry
         IN  <<t % Base>> \o BigMulSmallFrom(a, k, i + 1, t \div Base)

BigMulSmall(a, k) == IF k = 0 THEN <<>> ELSE BigMulSmallFrom(a, k, 1, 0)

(* a * Base^n *)
BigShiftLimbs(a, n) == IF a = <<>> THEN <<>> ELSE [i \in 1..n |-> 0] \o a

RECURSIVE BigMulFrom(_, _, _)
BigMulFrom(a, b, i) ==
    IF i > Len(b) THEN <<>>
    ELSE BigAdd(BigMulSmall(a, b[i]), BigShiftLimbs(BigMulFrom(a, b, i + 1), 1))

(* a * b, one step for each limb of the shorter factor *)
BigMul(a, b) ==
    BigMulFrom(IF Len(a) < Len(b) THEN b ELSE a, IF Len(a) < Len(b) THEN a ELSE b, 1)

(* a * 2^k *)
BigShl(a, k) ==
    BigShiftLimbs(BigMulSmall(a, 2 ^ (k % LimbBits)), k \div LimbBits)

(* a divided by a limb-sized d: the quotient and the remainder.  The limbs *)
(* are taken from the top; leading zero limbs of the quotient are dropped. *)
RECURSIVE BigDivSmallFrom(_, _, _, _, _)
BigDivSmallFrom(a, d, i, rem, qs) ==
    IF i = 0 THEN [q |-> qs, r |-> rem]
    ELSE IF rem * Base + a[i] < d /\ qs = <<>>
    THEN BigDivSmallFrom(a, d, i - 1, rem * Base + a[i], <<>>)
    ELSE BigDivSmallFrom(a, d, i - 1, (rem * Base + a[i]) % d,
                         <<(rem * Base + a[i]) \div d>> \o qs)

BigDivSmall(a, d) == BigDivSmallFrom(a, d, Len(a), 0, <<>>)

(* a quotient with its flag: whether anything was left over or dropped *)
Inexact(res, dropped) == [q |-> res.q, sticky |-> res.r # 0 \/ dropped]

(* floor(a / 2^k), and whether a nonzero bit was dropped; n is the number  *)
(* of whole limbs dropped                                                  *)
BigShrLimbs(a, n, bits) ==
    Inexact(BigDivSmall(SubSeq(a, n + 1, Len(a)), 2 ^ bits),
            \E i \in 1..n : a[i] # 0)

BigShr(a, k) == BigShrLimbs(a, Min(k \div LimbBits, Len(a)), k % LimbBits)

(* a without its trailing zero bits, and their number; a # 0 *)
RECURSIVE ZeroLimbs(_, _)
ZeroLimbs(a, i) == IF a[i] # 0 THEN i - 1 ELSE ZeroLimbs(a, i + 1)

BigOddLimbs(a, n) ==
    [m |-> BigDivSmall(SubSeq(a, n + 1, Len(a)), 2 ^ TrailingZeros(a[n + 1])).q,
     zeros |-> LimbBits * n + TrailingZeros(a[n + 1])]

BigOddPart(a) == BigOddLimbs(a, ZeroLimbs(a, 1))

(* Long division by a divisor whose top limb has its top bit set: each     *)
(* quotient limb is estimated from the top two limbs of the running        *)
(* remainder and the top limb of the divisor, and lowered until it fits.   *)
RECURSIVE BigDivFix(_, _, _)
BigDivFix(r, b, qhat) ==
    IF BigCmp(BigMulSmall(b, qhat), r) > 0 THEN BigDivFix(r, b, qhat - 1) ELSE qhat

BigDivLimb(cur, b) ==
    BigDivFix(cur, b,
              Min(Base - 1,
                  (Limb(cur, Len(b) + 1) * Base + Limb(cur, Len(b))) \div b[Len(b)]))

(* One step takes the next limb a[i] of the dividend into the running     *)
(* remainder cur and finds the quotient limb q; the result holds the       *)
(* quotient and the number of limbs of the remainder.                      *)
RECURSIVE BigDivFrom(_, _, _, _, _)
RECURSIVE BigDivStep(_, _, _, _, _, _)
BigDivStep(a, b, i, cur, q, qs) ==
    IF q = 0 /\ qs = <<>>
    THEN BigDivFrom(a, b, i - 1, cur, <<>>)
    ELSE BigDivFrom(a, b, i - 1, BigSub(cur, BigMulSmall(b, q)), <<q>> \o qs)

BigDivFrom(a, b, i, r, qs) ==
    IF i = 0 THEN [q |-> qs, r |-> Len(r)]
    ELSE BigDivStep(a, b, i, BigTrim(<<a[i]>> \o r),
                    BigDivLimb(BigTrim(<<a[i]>> \o r), b), qs)

BigDivLong(a, b) == Inexact(BigDivFrom(a, b, Len(a), <<>>, <<>>), FALSE)

(* floor(a / b) and whether the division left a remainder; b # 0 *)
BigDiv(a, b) ==
    IF Len(b) = 1 THEN Inexact(BigDivSmall(a, b[1]), FALSE)
    ELSE BigDivLong(BigMulSmall(a, 2 ^ (LimbBits - BitLen(b[Len(b)]))),
                    BigMulSmall(b, 2 ^ (LimbBits - BitLen(b[Len(b)]))))
----------------------------------------------------------------------------
(* IEEE-754 doubles.  A finite nonzero double is (-1)^sign * m * 2^e with  *)
(* m odd, so that equal doubles are equal records.                         *)

Finite(sign, m, e) == [kind |-> "finite", sign |-> sign, m |-> m, e |-> e]

Zero(sign) == Finite(sign, <<>>, 0)

Infinity(sign) == [kind |-> "inf", sign |-> sign, m |-> <<>>, e |-> 0]

NaN == [kind |-> "nan", sign |-> 0, m |-> <<>>, e |-> 0]

IsNaN(x) == x.kind = "nan"

IsInf(x) == x.kind = "inf"

IsZero(x) == x.kind = "finite" /\ x.m = <<>>

(* the exponent of the bit above the leading bit of a finite nonzero double *)
Top(x) == BigBitLen(x.m) + x.e

(* the double of the exact value (-1)^sign * m * 2^e, already in range of  *)
(* precision; a value at or beyond 2^1024 is infinity                      *)
Odd(sign, odd, e) == Finite(sign, odd.m, e + odd.zeros)

Canonical(sign, m, e) ==
    IF m = <<>> THEN Zero(sign)
    ELSE IF BigBitLen(m) + e > DOUBLE_MAX_EXP THEN Infinity(sign)
    ELSE Odd(sign, BigOddPart(m), e)

(* n / 2^shift rounded to the nearest integer, ties to even; halved is the *)
(* quotient by 2^shift with the bit below it, above says that more lies    *)
(* below that bit                                                          *)
RoundEven(halved, above) ==
    IF halved.r = 1 /\ (above \/ BigOdd(halved.q))
    THEN BigAdd(halved.q, <<1>>)
    ELSE halved.q

RoundHalf(twice, sticky) ==
    RoundEven(BigDivSmall(twice.q, 2), twice.sticky \/ sticky)

RoundShift(n, shift, sticky) == RoundHalf(BigShr(n, shift - 1), sticky)

(* the double nearest (-1)^sign * (n + f) * 2^e, where 0 < f < 1 if sticky *)
(* and f = 0 otherwise; a sticky n has more than 54 bits.  quantum is the  *)
(* exponent of the last place of the result.                               *)
RoundAt(sign, n, e, sticky, quantum) ==
    Canonical(sign,
              IF quantum <= e THEN n ELSE RoundShift(n, quantum - e, sticky),
              Max(quantum, e))

RoundToDouble(sign, n, e, sticky) ==
    RoundAt(sign, n, e, sticky,
            Max(BigBitLen(n) + e - DOUBLE_BITS, DOUBLE_MIN_EXP))

(* int -> float *)
FromInt(i) ==
    Canonical(IF i < 0 THEN 1 ELSE 0, BigFromInt(IF i < 0 THEN -i ELSE i), 0)

DNeg(x) == IF IsNaN(x) THEN NaN ELSE [x EXCEPT !.sign = 1 - x.sign]

DAbs(x) == IF IsNaN(x) THEN NaN ELSE [x EXCEPT !.sign = 0]

Xor(s, t) == IF s = t THEN 0 ELSE 1

(* x * y *)
DMul(x, y) ==
    IF IsNaN(x) \/ IsNaN(y) THEN NaN
    ELSE IF IsInf(x) \/ IsInf(y)
         THEN (IF IsZero(x) \/ IsZero(y) THEN NaN ELSE Infinity(Xor(x.sign, y.sign)))
    ELSE RoundToDouble(Xor(x.sign, y.sign), BigMul(x.m, y.m), x.e + y.e, FALSE)

(* x / y as the hardware and numpy divide: a nonzero x over zero is an     *)
(* infinity, 0 / 0 is NaN.  The dividend is scaled by limbs limbs so that  *)
(* the quotient has more than 54 bits and the remainder only decides the   *)
(* sticky bit.                                                             *)
RoundQuotient(sign, res, e) == RoundToDouble(sign, res.q, e, res.sticky)

DivScaled(x, y, limbs) ==
    RoundQuotient(Xor(x.sign, y.sign),
                  BigDiv(BigShiftLimbs(x.m, limbs), y.m),
                  x.e - y.e - LimbBits * limbs)

DDiv(x, y) ==
    IF IsNaN(x) \/ IsNaN(y) THEN NaN
    ELSE IF IsInf(x) THEN (IF IsInf(y) THEN NaN ELSE Infinity(Xor(x.sign, y.sign)))
    ELSE IF IsInf(y) THEN Zero(Xor(x.sign, y.sign))
    ELSE IF IsZero(y) THEN (IF IsZero(x) THEN NaN ELSE Infinity(Xor(x.sign, y.sign)))
    ELSE IF IsZero(x) THEN Zero(Xor(x.sign, y.sign))
    ELSE DivScaled(x, y, (DOUBLE_BITS + 2 + BigBitLen(y.m)) \div LimbBits + 1)

(* The magnitude of a finite nonzero x in units of 2^e0, truncated, with   *)
(* a sticky flag for what the truncation dropped                           *)
Aligned(x, e0) ==
    IF x.e >= e0 THEN [q |-> BigShl(x.m, x.e - e0), sticky |-> FALSE]
    ELSE BigShr(x.m, e0 - x.e)

(* x + y.  Both magnitudes are written in units of 2^e0, a unit more than  *)
(* 60 bits below the leading bit of the larger, so that what the smaller   *)
(* loses only decides the sticky bit; the sum or the difference of the     *)
(* two is then rounded.  Equal magnitudes of opposite sign give +0.        *)
Difference(sign, larger, smaller) ==
    [sign |-> sign,
     n |-> BigSub(larger.q, IF smaller.sticky THEN BigAdd(smaller.q, <<1>>)
                            ELSE smaller.q),
     sticky |-> smaller.sticky]

SignedSum(sx, ax, sy, ay, order) ==
    IF sx = sy
    THEN [sign |-> sx, n |-> BigAdd(ax.q, ay.q), sticky |-> ax.sticky \/ ay.sticky]
    ELSE IF order = 0 THEN [sign |-> 0, n |-> <<>>, sticky |-> FALSE]
    ELSE IF order > 0 THEN Difference(sx, ax, ay)
    ELSE Difference(sy, ay, ax)

RoundSum(sum, e0) == RoundToDouble(sum.sign, sum.n, e0, sum.sticky)

AddAligned(sx, ax, sy, ay, e0) ==
    RoundSum(SignedSum(sx, ax, sy, ay, BigCmp(ax.q, ay.q)), e0)

AddAt(x, y, e0) == AddAligned(x.sign, Aligned(x, e0), y.sign, Aligned(y, e0), e0)

DAdd(x, y) ==
    IF IsNaN(x) \/ IsNaN(y) THEN NaN
    ELSE IF IsInf(x) THEN (IF IsInf(y) /\ x.sign # y.sign THEN NaN ELSE x)
    ELSE IF IsInf(y) THEN y
    ELSE IF IsZero(x) THEN (IF IsZero(y) THEN Zero(IF x.sign = 1 /\ y.sign = 1 THEN 1 ELSE 0) ELSE y)
    ELSE IF IsZero(y) THEN x
    ELSE AddAt(x, y, Max(Min(x.e, y.e), Max(Top(x), Top(y)) - 64))

DSub(x, y) == DAdd(x, DNeg(y))

(* -1, 0 or 1 as |x| is below, equal to or above |y|; both finite *)
CmpAt(x, y, e0) == BigCmp(Aligned(x, e0).q, Aligned(y, e0).q)

CmpMagnitude(x, y) ==
    IF IsZero(x) THEN (IF IsZero(y) THEN 0 ELSE -1)
    ELSE IF IsZero(y) THEN 1
    ELSE IF Top(x) < Top(y) THEN -1
    ELSE IF Top(x) > Top(y) THEN 1
    ELSE CmpAt(x, y, Min(x.e, y.e))

(* x < y; false when either is NaN *)
DLess(x, y) ==
    IF IsNaN(x) \/ IsNaN(y) THEN FALSE
    ELSE IF IsInf(x) THEN x.sign = 1 /\ ~(IsInf(y) /\ y.sign = 1)
    ELSE IF IsInf(y) THEN y.sign = 0
    ELSE IF IsZero(x) /\ IsZero(y) THEN FALSE
    ELSE IF x.sign # y.sign THEN x.sign = 1
    ELSE CmpMagnitude(IF x.sign = 0 THEN x ELSE y, IF x.sign = 0 THEN y ELSE x) < 0

(* np.rint: the nearest integral double, ties to even *)
Rint(x) ==
    IF x.kind # "finite" \/ x.e >= 0 THEN x
    ELSE Canonical(x.sign, RoundShift(x.m, -x.e, FALSE), 0)

(* a finite double whose truncation has at most 31 bits *)
FitsInt32(x) == x.kind = "finite" /\ (IsZero(x) \/ Top(x) <= INT32_BITS)

(* truncation toward zero of a double that FitsInt32 *)
Magnitude(x) == IF IsZero(x) THEN 0 ELSE BigToInt(Aligned(x, 0).q)

Trunc(x) == IF x.sign = 1 THEN -Magnitude(x) ELSE Magnitude(x)

(* the double nearest n / d: what float() makes of the decimal string of   *)
(* n / d, and what a GeoTIFF stores for it                                 *)
Ratio(n, d) == DDiv(FromInt(n), FromInt(d))
----------------------------------------------------------------------------
(* numpy primitives used by normalize_to_uint16 *)

SeqMin(s) == CHOOSE v \in {s[i] : i \in DOMAIN s} : \A i \in DOMAIN s : v <= s[i]

SeqMax(s) == CHOOSE v \in {s[i] : i \in DOMAIN s} : \A i \in DOMAIN s : v >= s[i]

(* np.clip(v, lo, hi) = minimum(maximum(v, lo), hi); NaN stays NaN *)
Clip(v, lo, hi) ==
    IF IsNaN(v) THEN NaN
    ELSE IF DLess(v, lo) THEN lo
    ELSE IF DLess(hi, v) THEN hi
    ELSE v

(* ndarray.astype(np.uint16) of a float.  A value whose truncation fits    *)
(* 16 bits converts to it.  Any other value, and NaN, is undefined         *)
(* behaviour of the underlying C cast; the builds in use produce one of:   *)
(*   "wrap"      the low 16 bits of the 32-bit conversion: the wrapped     *)
(*               truncation, and 0 for NaN and for a truncation outside    *)
(*               the 32-bit range (the conversion's sentinel 0x80000000)   *)
(*   "saturate"  clamp to the nearest representable value, NaN -> 0        *)
(*   "ones"      the all-ones pattern for every invalid input              *)
CastUB == {"wrap", "saturate", "ones"}

FitsUint16(v) == FitsInt32(v) /\ Trunc(v) >= 0 /\ Trunc(v) <= UINT16_MAX

(* the cast of a value whose truncation t fits 32 bits *)
CastInt(t, ub) ==
    IF t >= 0 /\ t <= UINT16_MAX THEN t
    ELSE IF ub = "ones" THEN UINT16_MAX
    ELSE IF ub = "wrap" THEN t % (UINT16_MAX + 1)
    ELSE IF t < 0 THEN 0 ELSE UINT16_MAX

AsUint16(v, ub) ==
    IF FitsInt32(v) THEN CastInt(Trunc(v), ub)
    ELSE IF ub = "ones" THEN UINT16_MAX
    ELSE IF IsNaN(v) \/ ub = "wrap" THEN 0
    ELSE IF v.sign = 1 THEN 0 ELSE UINT16_MAX

----------------------------------------------------------------------------
(* normalize_to_uint16 *)

(* lines 59-62: the number of output steps; value_range is the integer     *)
(* img_max - img_min, the target a double.  Mutants of the branch          *)
(* condition come first.                                                   *)
ColorRangeAnyMode(value_range, new_color_step_dist, use_binary_mode) ==
    IF DLess(Zero(0), new_color_step_dist)
       /\ DLess(new_color_step_dist, FromInt(UINT16_MAX))
    THEN DDiv(FromInt(value_range), new_color_step_dist)
    ELSE FromInt(UINT16_MAX)

ColorRangeFromZero(value_range, new_color_step_dist, use_binary_mode) ==
    IF ~use_binary_mode /\ ~DLess(new_color_step_dist, Zero(0))
       /\ DLess(new_color_step_dist, FromInt(UINT16_MAX))
    THEN DDiv(FromInt(value_range), new_color_step_dist)
    ELSE FromInt(UINT16_MAX)

ColorRange(value_range, new_color_step_dist, use_binary_mode) ==
    IF ~use_binary_mode /\ DLess(Zero(0), new_color_step_dist)
       /\ DLess(new_color_step_dist, FromInt(UINT16_MAX))
    THEN DDiv(FromInt(value_range), new_color_step_dist)
    ELSE FromInt(UINT16_MAX)

(* line 64: the recentering offset (65535 - color_range) / 2, a rounded    *)
(* subtraction and a division.  Mutant first: the range anchored at zero.  *)
CenterOffsetAnchored(color_range) == Zero(0)

CenterOffset(color_range) ==
    DDiv(DSub(FromInt(UINT16_MAX), color_range), FromInt(2))

(* line 56: (img - img_min) / (img_max - img_min), and lines 57-58:        *)
(* np.rint of it in binary mode                                            *)
UnitSample(sample, img_min, value_range, use_binary_mode) ==
    IF use_binary_mode
    THEN Rint(DDiv(FromInt(sample - img_min), value_range))
    ELSE DDiv(FromInt(sample - img_min), value_range)

(* lines 56-64 for one sample: the division of line 56, np.rint in binary  *)
(* mode, the multiplication of line 63, the clip and the addition of line  *)
(* 64, every one of them rounded to a double.                              *)
NormalizedSample(sample, img_min, value_range, color_range, offset, use_binary_mode) ==
    DAdd(Clip(DMul(UnitSample(sample, img_min, value_range, use_binary_mode),
                   color_range),
              Zero(0), color_range),
         offset)

NormalizedSamples(samples, img_min, value_range, color_range, offset, use_binary_mode) ==
    [i \in DOMAIN samples |->
        NormalizedSample(samples[i], img_min, value_range, color_range, offset,
                         use_binary_mode)]

NormalizedRange(samples, img_min, value_range, color_range, use_binary_mode) ==
    NormalizedSamples(samples, img_min, FromInt(value_range), color_range,
                      CenterOffset(color_range), use_binary_mode)

(* lines 54-64 up to the cast: the float array handed to astype *)
NormalizedFloat(samples, new_color_step_dist, use_binary_mode) ==
    NormalizedRange(samples, SeqMin(samples), SeqMax(samples) - SeqMin(samples),
                    ColorRange(SeqMax(samples) - SeqMin(samples),
                               new_color_step_dist, use_binary_mode),
                    use_binary_mode)

(* line 64: astype(np.uint16), for each outcome of the cast that a build   *)
(* can produce (they agree unless a value does not fit 16 bits), and the   *)
(* pair the function returns                                               *)
NormalizeResult(float_img, color_step_dist) ==
    [raised |-> "none",
     float_img |-> float_img,
     img |-> [ub \in CastUB |->
                 [i \in DOMAIN float_img |-> AsUint16(float_img[i], ub)]],
     color_step_dist |-> color_step_dist]

(* The whole function.  It has no raise statement and numpy division by    *)
(* zero does not raise, so it always returns; raised is kept in the result *)
(* so that callers treat every helper alike.  Line 65 divides the range    *)
(* by the rounded color_range, a second rounded division.                  *)
NormalizeToUint16(samples, new_color_step_dist, use_binary_mode) ==
    NormalizeResult(NormalizedFloat(samples, new_color_step_dist, use_binary_mode),
               DDiv(FromInt(SeqMax(samples) - SeqMin(samples)),
                    ColorRange(SeqMax(samples) - SeqMin(samples),
                               new_color_step_dist, use_binary_mode)))

----------------------------------------------------------------------------
(* calculate_resize_factors and resize_image *)

NoFactors == [fx |-> NaN, fy |-> NaN]

(* lines 35-38.  In main all three arguments are Python floats, for which  *)
(* division by zero raises ZeroDivisionError; nothing else is checked, and *)
(* a NaN or infinite target divides as the hardware does.                  *)
CalculateResizeFactors(orig_pixel_width, orig_pixel_height, new_pixel_size) ==
    IF IsZero(new_pixel_size)
    THEN [raised |-> "ZeroDivisionError", fx |-> NaN, fy |-> NaN]
    ELSE [raised |-> "none",
          fx |-> DDiv(orig_pixel_width, new_pixel_size),
          fy |-> DDiv(orig_pixel_height, new_pixel_size)]

(* lines 45-46: int(orig_size * resize_factor), the product of the size    *)
(* and the rounded factor, rounded to a double and truncated toward zero.  *)
(* Mutant first: a product rounded to the nearest integer.                 *)
NewSizeRounded(orig_size, resize_factor) ==
    Trunc(Rint(DMul(FromInt(orig_size), resize_factor)))

NewSize(orig_size, resize_factor) ==
    Trunc(DMul(FromInt(orig_size), resize_factor))

(* int() of a float: NaN and the infinities have no integer *)
IntError(x) ==
    IF IsNaN(x) THEN "ValueError"
    ELSE IF IsInf(x) THEN "OverflowError"
    ELSE "none"

(* line 48: cv2.resize(img, dsize) with the default fx = fy = 0 rejects a  *)
(* dsize with a non-positive side (cv2.error from its argument check).     *)
Cv2ResizeAccepts(new_width, new_height) == new_width > 0 /\ new_height > 0

NoDsize == [called |-> FALSE, width |-> 0, height |-> 0]

(* lines 47-49 once int() has returned both sides: the shape of the       *)
(* result or the error of cv2.resize; dsize is what cv2.resize was given.  *)
Cv2Resize(new_width, new_height) ==
    [raised |-> IF Cv2ResizeAccepts(new_width, new_height) THEN "none"
                ELSE "cv2.error",
     width |-> new_width, height |-> new_height,
     dsize |-> [called |-> TRUE, width |-> new_width, height |-> new_height]]

ResizeFailed(error) ==
    [raised |-> error, width |-> 0, height |-> 0, dsize |-> NoDsize]

(* lines 45-48 given the two products: int() raises on the width first,    *)
(* then on the height; a side that is no C int does not convert to a       *)
(* dsize at all.                                                           *)
ResizeTo(width_product, height_product, new_width, new_height) ==
    IF IntError(width_product) # "none" THEN ResizeFailed(IntError(width_product))
    ELSE IF IntError(height_product) # "none" THEN ResizeFailed(IntError(height_product))
    ELSE IF ~FitsInt32(width_product) \/ ~FitsInt32(height_product)
    THEN ResizeFailed("cv2.error")
    ELSE Cv2Resize(new_width, new_height)

(* lines 41-49 *)
ResizeImage(img, resize_factor_x, resize_factor_y) ==
    ResizeTo(DMul(FromInt(img.width), resize_factor_x),
             DMul(FromInt(img.height), resize_factor_y),
             NewSize(img.width, resize_factor_x),
             NewSize(img.height, resize_factor_y))

(* The sample values cv2.resize and cv2.GaussianBlur produce are convex    *)
(* combinations of source samples; the kernels are the library's, so the   *)
(* model lets every result pixel take any sample value between the source *)
(* minimum and maximum.                                                    *)
Interpolated(samples, count) == [1..count -> SeqMin(samples)..SeqMax(samples)]

(* line 31: along a dimension of length 1 cv2.GaussianBlur sets the        *)
(* kernel side to 1 (a 1x1 kernel copies the image); along any other it    *)
(* derives a non-positive side from a positive sigma and then requires     *)
(* the side to be positive and odd.                                        *)
KernelSideAccepted(kernel_size, sigma_x, length) ==
    \/ length = 1
    \/ kernel_size > 0 /\ kernel_size % 2 = 1
    \/ kernel_size <= 0 /\ sigma_x > 0

GaussianKernelAccepted(img, kernel_size, sigma_x) ==
    /\ KernelSideAccepted(kernel_size, sigma_x, img.width)
    /\ KernelSideAccepted(kernel_size, sigma_x, img.height)

----------------------------------------------------------------------------
(* State of one run of main *)

VARIABLES
    pc,                     \* position in main: the stage about to run
    geotiff,                \* the input file: readable, raster, pixel sizes
    new_pixel_size,         \* argv -s: [given, empty, numeric, value]
    new_color_step_dist,    \* argv -c: [numeric, value]
    add_blur,               \* argv -g
    use_binary_mode,        \* argv -b
    img,                    \* local img of main
    resize_factors,         \* what calculate_resize_factors returned
    dsize,                  \* the size resize_image handed to cv2.resize
    blur_kernel_size,       \* local blur_kernel_size of main
    blur_intensity,         \* local blur_intensity of main
    raw,                    \* the samples normalize_to_uint16 was given
    float_img,              \* normalized_img just before astype
    output_color_step_dist, \* local output_color_step_dist of main
    stages,                 \* the stages that ran to completion, in order
    raised,                 \* the exception that ended the run, with its origin
    file_written            \* whether cv2.imwrite produced the output file

vars == <<pc, geotiff, new_pixel_size, new_color_step_dist, add_blur,
          use_binary_mode, img, resize_factors, dsize, blur_kernel_size,
          blur_intensity, raw, float_img, output_color_step_dist, stages,
          raised, file_written>>

(* the command line and the input file, which no step changes *)
argv == <<geotiff, new_pixel_size, new_color_step_dist, add_blur,
          use_binary_mode>>

NoImage == [width |-> 0, height |-> 0, samples |-> <<>>]

NotRaised == [error |-> "none", in |-> "none"]

(* a local of main that has not been assigned yet *)
Unassigned == [assigned |-> FALSE, value |-> 0]

Assigned(v) == [assigned |-> TRUE, value |-> v]

(* input domains *)
Rasters(widths, heights, sample_values) ==
    UNION {{[width |-> w, height |-> h, samples |-> s] :
                s \in [1..(w * h) -> sample_values]} :
           w \in widths, h \in heights}

ConstantRasters(widths, heights, sample_values) ==
    {r \in Rasters(widths, heights, sample_values) :
        SeqMin(r.samples) = SeqMax(r.samples)}

(* rasters whose samples do not decrease along the row *)
AscendingRasters(widths, heights, sample_values) ==
    {r \in Rasters(widths, heights, sample_values) :
        \A i \in 1..(Len(r.samples) - 1) : r.samples[i] <= r.samples[i + 1]}

(* -s: absent (the int default 0), the empty string, a string float()     *)
(* accepts, or a non-empty one it rejects                                  *)
DefaultSize ==
    [given |-> FALSE, empty |-> FALSE, numeric |-> TRUE, value |-> FromInt(0)]

EmptySize == [given |-> TRUE, empty |-> TRUE, numeric |-> FALSE, value |-> NaN]

NonNumericSize ==
    [given |-> TRUE, empty |-> FALSE, numeric |-> FALSE, value |-> NaN]

GivenSizes(nums, dens) ==
    {[given |-> TRUE, empty |-> FALSE, numeric |-> TRUE, value |-> Ratio(n, d)] :
        n \in nums, d \in dens}
    \cup {[given |-> TRUE, empty |-> FALSE, numeric |-> TRUE, value |-> v] :
              v \in {NaN, Infinity(0)}}
    \cup {NonNumericSize, EmptySize}

(* line 86, if new_pixel_size: the int 0 and the empty string are false,   *)
(* every other string is true, "0" included                                *)
Truthy(size) == size.given /\ ~size.empty

(* -c: the int default 0 or a string; float() is applied to either *)
NonNumericStep == [numeric |-> FALSE, value |-> NaN]

Steps(values) == {[numeric |-> TRUE, value |-> v] : v \in values}

(* the double n * 2^-e, which float() reads from its decimal string *)
Dyadic(n, e) == Canonical(0, BigFromInt(n), -e)

StepDists ==
    Steps({FromInt(n) : n \in {-1, 0, UINT16_MAX, UINT16_MAX + 1}}
          \cup {Dyadic(n, e) : n \in 1..MaxStepNum \cup {7, 11},
                               e \in {0, 1, MaxStepExp, MaxTinyStepExp}}
          \cup {Ratio(1, 3), NaN})
    \cup {NonNumericStep}

(* the integers typed at the two prompts *)
KernelSizes == 0..MaxKernel

Sigmas == {0, 1}

(* int(input()) failing: the line is not an integer, or the input ended *)
InputErrors == {"ValueError", "EOFError"}

InitWith(pc0, files, sizes, steps, blurs, modes) ==
    /\ pc = pc0
    /\ geotiff \in files
    /\ new_pixel_size \in sizes
    /\ new_color_step_dist \in steps
    /\ add_blur \in blurs
    /\ use_binary_mode \in modes
    /\ img = IF pc0 = "open" THEN NoImage ELSE geotiff.raster
    /\ resize_factors = NoFactors
    /\ dsize = NoDsize
    /\ blur_kernel_size = Unassigned
    /\ blur_intensity = Unassigned
    /\ raw = <<>>
    /\ float_img = <<>>
    /\ output_color_step_dist = NaN
    /\ stages = IF pc0 = "open" THEN <<>> ELSE <<"open">>
    /\ raised = NotRaised
    /\ file_written = FALSE

Files(readables, rasters, pixel_sizes) ==
    {[readable |-> ok, raster |-> r, pixel_width |-> pw, pixel_height |-> ph] :
        ok \in readables, r \in rasters, pw \in pixel_sizes, ph \in pixel_sizes}

----------------------------------------------------------------------------
(* main, one action per step and outcome *)

(* line 81, get_geotiff_data returning: gdal.Open gave a dataset *)
GetGeotiffData ==
    /\ pc = "open"
    /\ geotiff.readable
    /\ img' = geotiff.raster
    /\ stages' = Append(stages, "open")
    /\ pc' = "resample"
    /\ UNCHANGED <<argv, resize_factors, dsize, blur_kernel_size,
                   blur_intensity, raw, float_img, output_color_step_dist,
                   raised, file_written>>

(* lines 9-10: gdal.Open gave None *)
GetGeotiffDataRaise ==
    /\ pc = "open"
    /\ ~geotiff.readable
    /\ raised' = [error |-> "Exception", in |-> "get_geotiff_data"]
    /\ pc' = "raised"
    /\ UNCHANGED <<argv, img, resize_factors, dsize, blur_kernel_size,
                   blur_intensity, raw, float_img, output_color_step_dist,
                   stages, file_written>>

(* line 86 false: the default 0 of -s, or -s '' *)
SkipResample ==
    /\ pc = "resample"
    /\ ~Truthy(new_pixel_size)
    /\ pc' = "blur"
    /\ UNCHANGED <<argv, img, resize_factors, dsize, blur_kernel_size,
                   blur_intensity, raw, float_img, output_color_step_dist,
                   stages, raised, file_written>>

(* lines 86-89, float() and both helpers returning *)
Resample ==
    /\ pc = "resample"
    /\ Truthy(new_pixel_size)
    /\ new_pixel_size.numeric
    /\ \E f \in {CalculateResizeFactors(geotiff.pixel_width, geotiff.pixel_height,
                                          new_pixel_size.value)} :
          /\ f.raised = "none"
          /\ resize_factors' = [fx |-> f.fx, fy |-> f.fy]
          /\ \E r \in {ResizeImage(img, f.fx, f.fy)} :
                /\ r.raised = "none"
                /\ dsize' = r.dsize
                /\ \E s \in Interpolated(img.samples, r.width * r.height) :
                      img' = [width |-> r.width, height |-> r.height,
                              samples |-> s]
    /\ stages' = Append(stages, "resample")
    /\ pc' = "blur"
    /\ UNCHANGED <<argv, blur_kernel_size, blur_intensity, raw, float_img,
                   output_color_step_dist, raised, file_written>>

(* lines 87-89 raising: float() rejects the string, or one of the helpers  *)
(* raises                                                                  *)
ResampleRaise ==
    /\ pc = "resample"
    /\ Truthy(new_pixel_size)
    /\ \/ /\ ~new_pixel_size.numeric
          /\ raised' = [error |-> "ValueError", in |-> "main"]
          /\ UNCHANGED <<resize_factors, dsize>>
       \/ /\ new_pixel_size.numeric
          /\ \E f \in {CalculateResizeFactors(geotiff.pixel_width,
                                                geotiff.pixel_height,
                                                new_pixel_size.value)} :
                \/ /\ f.raised # "none"
                   /\ raised' = [error |-> f.raised,
                                 in |-> "calculate_resize_factors"]
                   /\ UNCHANGED <<resize_factors, dsize>>
                \/ /\ f.raised = "none"
                   /\ resize_factors' = [fx |-> f.fx, fy |-> f.fy]
                   /\ \E r \in {ResizeImage(img, f.fx, f.fy)} :
                         /\ r.raised # "none"
                         /\ raised' = [error |-> r.raised, in |-> "resize_image"]
                         /\ dsize' = r.dsize
    /\ pc' = "raised"
    /\ UNCHANGED <<argv, img, blur_kernel_size, blur_intensity, raw, float_img,
                   output_color_step_dist, stages, file_written>>

(* line 90 false *)
SkipBlur ==
    /\ pc = "blur"
    /\ ~add_blur
    /\ pc' = "normalize"
    /\ UNCHANGED <<argv, img, resize_factors, dsize, blur_kernel_size,
                   blur_intensity, raw, float_img, output_color_step_dist,
                   stages, raised, file_written>>

(* lines 90-92: the first prompt, answered with an integer *)
ReadKernelSize ==
    /\ pc = "blur"
    /\ add_blur
    /\ \E typed \in KernelSizes : blur_kernel_size' = Assigned(typed)
    /\ pc' = "blur_intensity"
    /\ UNCHANGED <<argv, img, resize_factors, dsize, blur_intensity, raw,
                   float_img, output_color_step_dist, stages, raised,
                   file_written>>

(* line 92 raising *)
ReadKernelSizeRaise ==
    /\ pc = "blur"
    /\ add_blur
    /\ \E error \in InputErrors : raised' = [error |-> error, in |-> "main"]
    /\ pc' = "raised"
    /\ UNCHANGED <<argv, img, resize_factors, dsize, blur_kernel_size,
                   blur_intensity, raw, float_img, output_color_step_dist,
                   stages, file_written>>

(* line 93: the second prompt, answered with an integer *)
ReadIntensity ==
    /\ pc = "blur_intensity"
    /\ \E typed \in Sigmas : blur_intensity' = Assigned(typed)
    /\ pc' = "blur_apply"
    /\ UNCHANGED <<argv, img, resize_factors, dsize, blur_kernel_size, raw,
                   float_img, output_color_step_dist, stages, raised,
                   file_written>>

(* line 93 raising *)
ReadIntensityRaise ==
    /\ pc = "blur_intensity"
    /\ \E error \in InputErrors : raised' = [error |-> error, in |-> "main"]
    /\ pc' = "raised"
    /\ UNCHANGED <<argv, img, resize_factors, dsize, blur_kernel_size,
                   blur_intensity, raw, float_img, output_color_step_dist,
                   stages, file_written>>

(* line 94, apply_gaussian_blur returning *)
ApplyGaussianBlur ==
    /\ pc = "blur_apply"
    /\ GaussianKernelAccepted(img, blur_kernel_size.value, blur_intensity.value)
    /\ \E s \in Interpolated(img.samples, Len(img.samples)) :
          img' = [img EXCEPT !.samples = s]
    /\ stages' = Append(stages, "blur")
    /\ pc' = "normalize"
    /\ UNCHANGED <<argv, resize_factors, dsize, blur_kernel_size,
                   blur_intensity, raw, float_img, output_color_step_dist,
                   raised, file_written>>

(* line 94 raising: cv2.GaussianBlur rejects the kernel size *)
ApplyGaussianBlurRaise ==
    /\ pc = "blur_apply"
    /\ ~GaussianKernelAccepted(img, blur_kernel_size.value,
                               blur_intensity.value)
    /\ raised' = [error |-> "cv2.error", in |-> "apply_gaussian_blur"]
    /\ pc' = "raised"
    /\ UNCHANGED <<argv, img, resize_factors, dsize, blur_kernel_size,
                   blur_intensity, raw, float_img, output_color_step_dist,
                   stages, file_written>>

(* lines 95-100: float(), normalize_to_uint16, then "Done" and the RESULT  *)
(* report                                                                  *)
Normalize ==
    /\ pc = "normalize"
    /\ new_color_step_dist.numeric
    /\ \E r \in {NormalizeToUint16(img.samples, new_color_step_dist.value,
                                     use_binary_mode)} :
          /\ r.raised = "none"
          /\ raw' = img.samples
          /\ float_img' = r.float_img
          /\ \E ub \in CastUB : img' = [img EXCEPT !.samples = r.img[ub]]
          /\ output_color_step_dist' = r.color_step_dist
    /\ stages' = Append(stages, "normalize")
    /\ pc' = "write"
    /\ UNCHANGED <<argv, resize_factors, dsize, blur_kernel_size,
                   blur_intensity, raised, file_written>>

(* line 95 raising: float() rejects the string given as -c *)
NormalizeRaise ==
    /\ pc = "normalize"
    /\ ~new_color_step_dist.numeric
    /\ raised' = [error |-> "ValueError", in |-> "main"]
    /\ pc' = "raised"
    /\ UNCHANGED <<argv, img, resize_factors, dsize, blur_kernel_size,
                   blur_intensity, raw, float_img, output_color_step_dist,
                   stages, file_written>>

(* line 103: cv2.imwrite reports an unwritable path by returning False,    *)
(* which main ignores; main then returns normally.                         *)
Imwrite ==
    /\ pc = "write"
    /\ \E ok \in BOOLEAN : file_written' = ok
    /\ stages' = Append(stages, "write")
    /\ pc' = "exit"
    /\ UNCHANGED <<argv, img, resize_factors, dsize, blur_kernel_size,
                   blur_intensity, raw, float_img, output_color_step_dist,
                   raised>>

----------------------------------------------------------------------------
(* Specifications *)

(* The whole run, from the command line to the exit *)
Init ==
    InitWith("open",
             Files(BOOLEAN, Rasters(1..MaxWidth, {1}, {0, 1}), {FromInt(1)}),
             {DefaultSize} \cup GivenSizes({0, 1, 2}, {1}),
             Steps({FromInt(0), FromInt(1), Dyadic(1, MaxStepExp)})
                 \cup {NonNumericStep},
             BOOLEAN, BOOLEAN)

Next ==
    \/ GetGeotiffData
    \/ GetGeotiffDataRaise
    \/ SkipResample
    \/ Resample
    \/ ResampleRaise
    \/ SkipBlur
    \/ ReadKernelSize
    \/ ReadKernelSizeRaise
    \/ ReadIntensity
    \/ ReadIntensityRaise
    \/ ApplyGaussianBlur
    \/ ApplyGaussianBlurRaise
    \/ Normalize
    \/ NormalizeRaise
    \/ Imwrite

Spec == Init /\ [][Next]_vars

(* A run at line 95, no resampling or blur requested, over the one-row     *)
(* rasters of up to MaxPixels samples, every target step distance and mode *)
(* (normalize_to_uint16 ignores the shape and treats every sample alike    *)
(* once the minimum and the maximum are known, so the samples are taken in *)
(* ascending order).                                                       *)
(* The rasters over 0 and 9 with the step numerator 7 give a range and a   *)
(* step whose two divisions do not round back to the step; in the two      *)
(* three-sample rasters the division, the multiplication and the addition  *)
(* of the middle sample round to a value below an integer.                 *)
InitNormalize ==
    InitWith("normalize",
             Files({TRUE},
                   AscendingRasters(1..MaxPixels, {1}, 0..MaxSample)
                       \cup AscendingRasters({2}, {1}, {0, 9})
                       \cup {[width |-> 3, height |-> 1, samples |-> s] :
                                 s \in {<<0, 19994, 39987>>, <<0, 9, 47835>>}},
                   {FromInt(1)}),
             {DefaultSize}, StepDists, {FALSE}, BOOLEAN)

NextNormalize ==
    \/ Normalize
    \/ NormalizeRaise
    \/ Imwrite

SpecNormalize == InitNormalize /\ [][NextNormalize]_vars

(* A run at line 86 over raster shapes, pixel sizes and target pixel       *)
(* sizes.  Width 55 with pixel width 3 and target 11/2 or 11, and width 49 *)
(* with pixel width 1 and target 49, have a double product just below the  *)
(* integer the quotient of the decimals names; width 3 with pixel width    *)
(* 0.3 and target 0.9 has a factor below 1/3 whose product rounds to 1.    *)
InitResample ==
    InitWith("resample",
             Files({TRUE},
                   ConstantRasters(1..MaxWidth \cup {3, 49, 55}, 1..MaxHeight, {0}),
                   {FromInt(n) : n \in 1..MaxPixelSize}
                       \cup {Ratio(n, 10) : n \in {3, 5, 9}}),
             {DefaultSize}
                 \cup GivenSizes({-1, 0, 11, 49} \cup 1..MaxSizeNum, {1})
                 \cup GivenSizes({1, 11}, {2})
                 \cup GivenSizes({1, 9}, {10}),
             Steps({FromInt(0)}), {FALSE}, {FALSE})

NextResample ==
    \/ SkipResample
    \/ Resample
    \/ ResampleRaise

SpecResample == InitResample /\ [][NextResample]_vars

----------------------------------------------------------------------------
(* Properties *)

Values(seq) == {seq[i] : i \in DOMAIN seq}

Normalized == pc \in {"write", "exit"}

RawMin == SeqMin(raw)

RawMax == SeqMax(raw)

(* the output values of the lowest and of the highest input sample *)
LowOut == CHOOSE v \in Values(img.samples) :
              \E i \in DOMAIN raw : raw[i] = RawMin /\ img.samples[i] = v

HighOut == CHOOSE v \in Values(img.samples) :
              \E i \in DOMAIN raw : raw[i] = RawMax /\ img.samples[i] = v

Requested == new_color_step_dist.value

Honoured ==
    /\ ~use_binary_mode
    /\ DLess(Zero(0), Requested)
    /\ DLess(Requested, FromInt(UINT16_MAX))

(* the color range the specification prescribes for the current run *)
ExpectedRange ==
    IF Honoured
    THEN DDiv(FromInt(RawMax - RawMin), Requested)
    ELSE FromInt(UINT16_MAX)

(* x = y and x <= y on doubles; false when either is NaN *)
DEqual(x, y) ==
    /\ ~IsNaN(x) /\ ~IsNaN(y)
    /\ x = y \/ (IsZero(x) /\ IsZero(y))

DLeq(x, y) == DLess(x, y) \/ DEqual(x, y)

(* C1: for a raster with img_max > img_min, in either mode and for every   *)
(* target step distance, every value handed to the unsigned 16-bit cast    *)
(* lies within [0, 65535], so the output is its truncation and nothing     *)
(* wraps around.                                                           *)
C1_OutputWithinRange ==
    (Normalized /\ RawMin < RawMax) =>
        \A i \in DOMAIN raw :
            /\ DLeq(Zero(0), float_img[i])
            /\ DLeq(float_img[i], FromInt(UINT16_MAX))
            /\ img.samples[i] = Trunc(float_img[i])
            /\ img.samples[i] \in 0..UINT16_MAX

(* C2: a constant raster given to normalize ends in an error of            *)
(* normalize; no normalized array and no output step distance is returned. *)
C2_DegenerateRangeRaises ==
    (/\ pc # "normalize"
     /\ new_color_step_dist.numeric
     /\ SeqMin(geotiff.raster.samples) = SeqMax(geotiff.raster.samples)) =>
        /\ pc = "raised"
        /\ raised.in = "normalize_to_uint16"
        /\ raw = <<>>
        /\ float_img = <<>>
        /\ IsNaN(output_color_step_dist)
        /\ img = geotiff.raster

(* C3: in binary mode the output holds at most two distinct values, and    *)
(* for a raster with img_max > img_min they are exactly 0 and 65535, the   *)
(* lowest sample giving 0 and the highest 65535, whatever the target step  *)
(* distance.                                                               *)
C3_BinaryTwoLevels ==
    (Normalized /\ use_binary_mode) =>
        /\ Cardinality(Values(img.samples)) <= 2
        /\ RawMin < RawMax =>
              /\ Values(img.samples) = {0, UINT16_MAX}
              /\ \A i \in DOMAIN raw :
                    /\ raw[i] = RawMin => img.samples[i] = 0
                    /\ raw[i] = RawMax => img.samples[i] = UINT16_MAX

C3_Witness ==
    /\ pc = "write"
    /\ use_binary_mode
    /\ Requested = FromInt(1)
    /\ Cardinality(Values(raw)) = 3
    /\ Values(img.samples) = {0, UINT16_MAX}

(* |achieved - requested| < requested / color_range *)
WithinTolerance ==
    DLess(DAbs(DSub(output_color_step_dist, Requested)),
          DDiv(Requested, ExpectedRange))

(* 2^51: up to this color_range the rounding of the two divisions, at most *)
(* 2^-52 of the requested distance, stays inside the tolerance             *)
ToleranceLimit == Finite(0, <<1>>, DOUBLE_BITS - 2)

(* the reported distance of a raster from 1000 to 4000 with target 0 *)
ExampleStepDist ==
    NormalizeToUint16(<<1000, 4000>>, FromInt(0), FALSE).color_step_dist

(* the shape factors (2.0, 2.0) give a 100x50 raster *)
ExampleFactors == CalculateResizeFactors(FromInt(2), FromInt(2), FromInt(1))

ExampleShape ==
    ResizeImage([width |-> 100, height |-> 50, samples |-> <<>>],
                ExampleFactors.fx, ExampleFactors.fy)

(* C4 as stated: for a raster with img_max > img_min the reported step     *)
(* distance is (img_max - img_min) / color_range, with color_range =       *)
(* (img_max - img_min) / target in continuous mode with 0 < target < 65535 *)
(* and 65535 otherwise.  Every honoured request is reported back as        *)
(* requested, |achieved - requested| < requested / color_range.  Any other *)
(* run reports (img_max - img_min) / 65535, e.g. 3000/65535 for a raster   *)
(* from 1000 to 4000 with target 0.                                        *)
C4_ReportedStepDistance ==
    /\ (Normalized /\ RawMin < RawMax) =>
          /\ output_color_step_dist = DDiv(FromInt(RawMax - RawMin), ExpectedRange)
          /\ Honoured => WithinTolerance
          /\ ~Honoured => output_color_step_dist = Ratio(RawMax - RawMin, UINT16_MAX)
    /\ ExampleStepDist = Ratio(3000, UINT16_MAX)

(* C4 amended: the same reported distance and color_range; a honoured      *)
(* request whose color_range is at most 2^51 is reported back within       *)
(* |achieved - requested| < requested / color_range, and any run that does *)
(* not honour a request reports (img_max - img_min) / 65535.               *)
C4_ReportedWithinLimit ==
    /\ (Normalized /\ RawMin < RawMax) =>
          /\ output_color_step_dist = DDiv(FromInt(RawMax - RawMin), ExpectedRange)
          /\ (Honoured /\ DLeq(ExpectedRange, ToleranceLimit)) => WithinTolerance
          /\ ~Honoured => output_color_step_dist = Ratio(RawMax - RawMin, UINT16_MAX)
    /\ ExampleStepDist = Ratio(3000, UINT16_MAX)

(* range 9 with target 7: 9 / (9 / 7) is 6.999999999999999, one unit in    *)
(* the last place below 7 and well within 7 / (9 / 7)                      *)
C4_Witness ==
    /\ pc = "write"
    /\ ~use_binary_mode
    /\ Requested = FromInt(7)
    /\ RawMax - RawMin = 9
    /\ output_color_step_dist = DSub(FromInt(7), Finite(0, <<1>>, 3 - DOUBLE_BITS))
    /\ WithinTolerance

(* C10 as stated: in continuous mode with img_max > img_min and            *)
(* color_range <= 65535 the lowest output L and the highest output H       *)
(* leave the same headroom, L - 0 = 65535 - H.                             *)
C10_SymmetricHeadroom ==
    (Normalized /\ ~use_binary_mode /\ RawMin < RawMax
        /\ DLeq(ExpectedRange, FromInt(UINT16_MAX))) =>
        LowOut - 0 = UINT16_MAX - HighOut

(* C10 amended: under the same conditions the headroom above is the        *)
(* headroom below or one more, 65535 - H \in {L, L + 1}; the two are equal *)
(* when color_range is an odd integer, and color_range = 65535 gives L = 0 *)
(* and H = 65535.                                                          *)
C10_HeadroomWithinOne ==
    (Normalized /\ ~use_binary_mode /\ RawMin < RawMax
        /\ DLeq(ExpectedRange, FromInt(UINT16_MAX))) =>
        /\ UINT16_MAX - HighOut \in {LowOut, LowOut + 1}
        /\ (~IsZero(ExpectedRange) /\ ExpectedRange.e = 0) =>
              LowOut = UINT16_MAX - HighOut
        /\ ExpectedRange = FromInt(UINT16_MAX) => (LowOut = 0 /\ HighOut = UINT16_MAX)

C10_Witness ==
    /\ pc = "write"
    /\ ~use_binary_mode
    /\ Requested = FromInt(1)
    /\ RawMax - RawMin = 2
    /\ LowOut = 32766
    /\ HighOut = 32768

(* resampling *)

TargetSize == new_pixel_size.value

(* the run went past line 87 with a number as the target pixel size *)
ResampleEntered ==
    /\ Truthy(new_pixel_size)
    /\ new_pixel_size.numeric
    /\ ~IsNaN(TargetSize)
    /\ pc \notin {"open", "resample"}

Resampled == pc \notin {"open", "resample", "raised"} /\ "resample" \in Values(stages)

(* the double orig_size * factor that lines 45-46 hand to int() *)
SideProduct(orig_size, factor) == DMul(FromInt(orig_size), factor)

(* k = floor(x): k <= x < k + 1 *)
IsFloor(k, x) == DLeq(FromInt(k), x) /\ DLess(x, FromInt(k + 1))

(* floor(orig_size * factor) = 0 *)
ZeroSide(orig_size, factor) == IsFloor(0, SideProduct(orig_size, factor))

(* C5: for a positive target pixel size the factors are fx =               *)
(* orig_pixel_width / target and fy = orig_pixel_height / target, and a    *)
(* resampled raster has width floor(orig_width * fx) and height            *)
(* floor(orig_height * fy), truncated and never rounded to nearest;        *)
(* factors (2.0, 2.0) turn 100x50 into 200x100.                            *)
C5_ResizedShape ==
    /\ (ResampleEntered /\ DLess(Zero(0), TargetSize)) =>
          /\ resize_factors.fx = DDiv(geotiff.pixel_width, TargetSize)
          /\ resize_factors.fy = DDiv(geotiff.pixel_height, TargetSize)
    /\ Resampled =>
          /\ DLess(Zero(0), TargetSize)
          /\ IsFloor(img.width, SideProduct(geotiff.raster.width, resize_factors.fx))
          /\ IsFloor(img.height, SideProduct(geotiff.raster.height, resize_factors.fy))
          /\ Len(img.samples) = img.width * img.height
    /\ ExampleFactors = [raised |-> "none", fx |-> FromInt(2), fy |-> FromInt(2)]
    /\ ExampleShape.raised = "none"
    /\ ExampleShape.width = 200
    /\ ExampleShape.height = 100

(* 55 * (3.0 / 5.5) is 29.999999999999996: the width is 29, not the        *)
(* nearest integer 30                                                      *)
C5_Witness ==
    /\ pc = "blur"
    /\ "resample" \in Values(stages)
    /\ geotiff.raster.width = 55
    /\ geotiff.pixel_width = FromInt(3)
    /\ TargetSize = Ratio(11, 2)
    /\ DLess(FromInt(29), SideProduct(55, resize_factors.fx))
    /\ img.width = 29

(* C6: compute_resize_factors with a zero or negative target pixel size    *)
(* ends in an error for every pair of pixel sizes and returns no factors.  *)
C6_NonPositiveTargetRejected ==
    (ResampleEntered /\ DLeq(TargetSize, Zero(0))) =>
        /\ pc = "raised"
        /\ raised.in = "calculate_resize_factors"
        /\ raised.error # "none"
        /\ resize_factors = NoFactors

(* C7: whenever the factors give a new width or a new height of zero, by   *)
(* the floor of the product or by the computed size being 0, resize ends   *)
(* in its InvalidParameterError and no resampled raster, in particular no  *)
(* empty one, is returned or passed on.                                    *)
C7_ZeroSizeRejected ==
    (/\ ResampleEntered
     /\ \/ ZeroSide(geotiff.raster.width, resize_factors.fx)
        \/ ZeroSide(geotiff.raster.height, resize_factors.fy)
        \/ dsize.called /\ (dsize.width = 0 \/ dsize.height = 0)) =>
        /\ pc = "raised"
        /\ raised = [error |-> "InvalidParameterError", in |-> "resize_image"]
        /\ img = geotiff.raster
        /\ "resample" \notin Values(stages)

(* the whole run *)

StageRank(stage) ==
    CASE stage = "open" -> 1
      [] stage = "resample" -> 2
      [] stage = "blur" -> 3
      [] stage = "normalize" -> 4
      [] stage = "write" -> 5

DegenerateRange == raw # <<>> /\ RawMin = RawMax

WriteFailed == "write" \in Values(stages) /\ ~file_written

(* C8: the stages run in the order open, resample, blur, normalize, write, *)
(* the image is written only after every earlier stage succeeded, and a    *)
(* run in which the source cannot be opened, a parameter is invalid, the   *)
(* range is degenerate or the write fails ends in failure with no output   *)
(* file and is never reported as successful.                               *)
C8_FailureAbortsRun ==
    /\ \A i, j \in DOMAIN stages :
          i < j => StageRank(stages[i]) < StageRank(stages[j])
    /\ file_written =>
          /\ {"open", "normalize", "write"} \subseteq Values(stages)
          /\ ~DegenerateRange
    /\ (~geotiff.readable \/ raised # NotRaised \/ DegenerateRange \/ WriteFailed) =>
          /\ ~file_written
          /\ pc \notin {"write", "exit"}

(* C9: an invalid parameter is surfaced before any numeric stage has run;  *)
(* in particular no kernel-size error is raised after resampling.          *)
C9_ParametersValidatedFirst ==
    (/\ pc = "raised"
     /\ raised.in \in {"calculate_resize_factors", "resize_image",
                       "apply_gaussian_blur"}) =>
        Values(stages) \cap {"resample", "blur", "normalize"} = {}

====
